---- MODULE Spec2Model ----
(***************************************************************************)
(* Reddit scraper actor: the HTTP retry client, the three fetch operations *)
(* of RedditService and the orchestration of run_scraper, as one state     *)
(* machine.  One action is one stretch of the coroutine between two        *)
(* suspension points (an HTTP request, a sleep, a write to the sink).      *)
(***************************************************************************)
EXTENDS Integers, Sequences, FiniteSets, TLC

(***************************************************************************)
(* Bounds of the model.                                                    *)
(***************************************************************************)
\* longest upstream listing (data.children) the model lets upstream return
MaxChildren == 2
\* longest upstream comment thread (children of the second array element)
MaxCommentChildren == 2
\* largest maxCommentsPerPost of a configuration
MaxCommentsCap == 1

(***************************************************************************)
(* Program constants.                                                      *)
(***************************************************************************)
max_retries == 3
retry_delay == 2
MAX_POSTS_PER_REQUEST == 100
MAX_COMMENTS_PER_REQUEST == 100
DEFAULT_LIMIT == 25
DEFAULT_MAX_COMMENTS == 10
DELAY_BETWEEN_SUBREDDITS_SECONDS == 1
DEFAULT_SORT == "new"
DEFAULT_TIME_FILTER == "day"
VALID_SORT_OPTIONS == {"new", "hot", "top", "rising"}

(***************************************************************************)
(* Python and JSON values.  A value is a record with one field that names  *)
(* its type, so that values of different types can be compared.  None is   *)
(* JSON null.  A dict is a TLA+ record: its DOMAIN is the set of its keys. *)
(***************************************************************************)
None == [null |-> TRUE]
JInt(n) == [int |-> n]
JStr(s) == [str |-> s]
JBool(b) == [bool |-> b]
JList(s) == [list |-> s]
JDict(d) == [dict |-> d]
EmptyDict == JDict(<<>>)

IsInt(v) == "int" \in DOMAIN v
IsStr(v) == "str" \in DOMAIN v
IsList(v) == "list" \in DOMAIN v
IsDict(v) == "dict" \in DOMAIN v
IsBool(v) == "bool" \in DOMAIN v

\* isinstance(v, int): bool is a subclass of int
IsInstanceInt(v) == IsInt(v) \/ IsBool(v)
\* the number an int or a bool compares as (True is 1, False is 0)
IntValue(v) == IF IsInt(v) THEN v.int ELSE IF v.bool THEN 1 ELSE 0

\* the outcome of a Python call: a returned value or a raised exception
Ret(v) == [ret |-> v]
Exc(e) == [exc |-> e]
Raised(r) == "exc" \in DOMAIN r

\* dict.get(key, default) on a value known to be a dict
DictGet(d, key, default) == IF key \in DOMAIN d.dict THEN d.dict[key] ELSE default

\* bool(v): Python truthiness
Truthy(v) ==
  CASE v = None -> FALSE
    [] IsInt(v) -> v.int # 0
    [] IsStr(v) -> v.str # ""
    [] "chars" \in DOMAIN v -> v.chars # <<>>
    [] IsList(v) -> v.list # <<>>
    [] IsDict(v) -> DOMAIN v.dict # {}
    [] "bool" \in DOMAIN v -> v.bool
    [] OTHER -> TRUE

\* `key in v`: membership of a string key, as Python evaluates it
\* (a dict looks among its keys, a list among its elements, None and
\* numbers raise TypeError)
KeyIn(key, v) ==
  CASE IsDict(v) -> Ret(key \in DOMAIN v.dict)
    [] IsList(v) -> Ret(\E k \in DOMAIN v.list : v.list[k] = JStr(key))
    [] OTHER -> Exc("TypeError")

\* `v > 0` for an upstream value: integers compare, None and strings
\* raise TypeError
GreaterThanZero(v) ==
  CASE IsInt(v) -> Ret(v.int > 0)
    [] "bool" \in DOMAIN v -> Ret(v.bool)
    [] OTHER -> Exc("TypeError")

(***************************************************************************)
(* Strings whose characters matter are sequences of one-character strings. *)
(***************************************************************************)
Whitespace == {" "}

RECURSIVE LStripSet(_, _)
\* str.lstrip(chars): drops leading characters as long as they are in chars
LStripSet(s, chars) ==
  IF s # <<>> /\ Head(s) \in chars THEN LStripSet(Tail(s), chars) ELSE s

RECURSIVE RStripSet(_, _)
RStripSet(s, chars) ==
  IF s # <<>> /\ s[Len(s)] \in chars
  THEN RStripSet(SubSeq(s, 1, Len(s) - 1), chars)
  ELSE s

\* str.strip()
Strip(s) == RStripSet(LStripSet(s, Whitespace), Whitespace)

\* helpers.clean_subreddit_name: subreddit.strip().lstrip("r/")
clean_subreddit_name(subreddit) == LStripSet(Strip(subreddit), {"r", "/"})

\* a Python str given by its characters (community names, search queries)
Txt(cs) == [chars |-> cs]

(***************************************************************************)
(* Normalizer (helpers.py).                                                *)
(***************************************************************************)
\* renderings of datetime.fromtimestamp(n, tz=utc).isoformat() for the
\* epochs upstream sends in this model
IsoFormat(n) ==
  CASE n = 0 -> "1970-01-01T00:00:00+00:00"
    [] n = 1 -> "1970-01-01T00:00:01+00:00"
    [] OTHER -> "later"

\* helpers.format_timestamp: a number is rendered, anything else raises
format_timestamp(utc_timestamp) ==
  IF IsInt(utc_timestamp)
  THEN Ret(JStr(IsoFormat(utc_timestamp.int)))
  ELSE Exc("TypeError")

\* f"https://reddit.com{value}": formatting never fails
Permalink(raw) == [prefix |-> "https://reddit.com", path |-> raw]

\* helpers.normalize_post_data: post_data.get raises on anything that is
\* not a dict; format_timestamp raises on a created_utc that is no number
normalize_post_data(post_data, source_type, source_name) ==
  IF ~IsDict(post_data) THEN Exc("AttributeError")
  ELSE LET created == format_timestamp(DictGet(post_data, "created_utc", JInt(0)))
       IN IF Raised(created) THEN created
          ELSE Ret([id |-> DictGet(post_data, "id", JStr("")),
                    title |-> DictGet(post_data, "title", JStr("")),
                    selftext |-> DictGet(post_data, "selftext", JStr("")),
                    author |-> DictGet(post_data, "author", JStr("[deleted]")),
                    subreddit |-> DictGet(post_data, "subreddit", source_name),
                    score |-> DictGet(post_data, "score", JInt(0)),
                    upvote_ratio |-> DictGet(post_data, "upvote_ratio", JInt(0)),
                    num_comments |-> DictGet(post_data, "num_comments", JInt(0)),
                    created_utc |-> DictGet(post_data, "created_utc", JInt(0)),
                    created_at |-> created.ret,
                    url |-> DictGet(post_data, "url", JStr("")),
                    permalink |-> Permalink(DictGet(post_data, "permalink", JStr(""))),
                    is_self |-> DictGet(post_data, "is_self", JBool(FALSE)),
                    is_video |-> DictGet(post_data, "is_video", JBool(FALSE)),
                    thumbnail |-> DictGet(post_data, "thumbnail", JStr("")),
                    domain |-> DictGet(post_data, "domain", JStr("")),
                    source_type |-> source_type,
                    source_name |-> source_name])

\* helpers.normalize_comment_data
normalize_comment_data(comment_data, post_id) ==
  IF ~IsDict(comment_data) THEN Exc("AttributeError")
  ELSE LET created == format_timestamp(DictGet(comment_data, "created_utc", JInt(0)))
       IN IF Raised(created) THEN created
          ELSE Ret([id |-> DictGet(comment_data, "id", JStr("")),
                    author |-> DictGet(comment_data, "author", JStr("[deleted]")),
                    body |-> DictGet(comment_data, "body", JStr("")),
                    score |-> DictGet(comment_data, "score", JInt(0)),
                    created_utc |-> DictGet(comment_data, "created_utc", JInt(0)),
                    created_at |-> created.ret,
                    permalink |-> Permalink(DictGet(comment_data, "permalink", JStr(""))),
                    is_submitter |-> DictGet(comment_data, "is_submitter", JBool(FALSE)),
                    parent_id |-> DictGet(comment_data, "parent_id", JStr("")),
                    post_id |-> post_id])

(***************************************************************************)
(* HTTP retry client (RedditService._make_request_with_retry).             *)
(* The outcome of one request is either a transport error or a response    *)
(* with a status, the outcome of response.json() and of response.text().   *)
(***************************************************************************)
\* the pair (status_code, response_data) the client returns
Pair(status, data) == [status |-> status, data |-> data]
\* no value yet
Nothing == [nothing |-> TRUE]

TransportError == [kind |-> "transport_error"]
Response(status, json, text) ==
  [kind |-> "response", status |-> status, json |-> json, text |-> text]

RECURSIVE Pow2(_)
Pow2(n) == IF n = 0 THEN 1 ELSE 2 * Pow2(n - 1)

\* a backoff that does not grow
wait_time_fixed(attempt) == retry_delay

\* wait_time = retry_delay * (2 ** attempt)
wait_time(attempt) == retry_delay * Pow2(attempt)

\* the loop iteration with the 403 branch taken on the last attempt too
RequestAttempt_403AlwaysRetried(attempt, outcome) ==
  IF outcome.kind = "transport_error"
  THEN IF attempt < max_retries - 1
       THEN [return |-> Nothing, sleep |-> <<wait_time(attempt)>>]
       ELSE [return |-> Nothing, sleep |-> <<>>]
  ELSE IF outcome.status = 200
  THEN IF Raised(outcome.json)
       THEN [return |-> Pair(JInt(200), None), sleep |-> <<>>]
       ELSE [return |-> Pair(JInt(200), outcome.json.ret), sleep |-> <<>>]
  ELSE IF outcome.status = 403
  THEN [return |-> Nothing, sleep |-> <<wait_time(attempt)>>]
  ELSE IF Raised(outcome.text)
       THEN [return |-> Pair(JInt(outcome.status), None), sleep |-> <<>>]
       ELSE [return |-> Pair(JInt(outcome.status),
                             JDict([error |-> outcome.text.ret])),
             sleep |-> <<>>]

\* the loop iteration with every non-200 status retried like a 403
RequestAttempt_AllErrorsRetried(attempt, outcome) ==
  IF outcome.kind = "transport_error"
  THEN IF attempt < max_retries - 1
       THEN [return |-> Nothing, sleep |-> <<wait_time(attempt)>>]
       ELSE [return |-> Nothing, sleep |-> <<>>]
  ELSE IF outcome.status = 200
  THEN IF Raised(outcome.json)
       THEN [return |-> Pair(JInt(200), None), sleep |-> <<>>]
       ELSE [return |-> Pair(JInt(200), outcome.json.ret), sleep |-> <<>>]
  ELSE IF attempt < max_retries - 1
  THEN [return |-> Nothing, sleep |-> <<wait_time(attempt)>>]
  ELSE IF Raised(outcome.text)
       THEN [return |-> Pair(JInt(outcome.status), None), sleep |-> <<>>]
       ELSE [return |-> Pair(JInt(outcome.status),
                             JDict([error |-> outcome.text.ret])),
             sleep |-> <<>>]

\* the loop iteration with a transport failure ending the call at once
RequestAttempt_TransportNotRetried(attempt, outcome) ==
  IF outcome.kind = "transport_error"
  THEN [return |-> Pair(None, None), sleep |-> <<>>]
  ELSE IF outcome.status = 200
  THEN IF Raised(outcome.json)
       THEN [return |-> Pair(JInt(200), None), sleep |-> <<>>]
       ELSE [return |-> Pair(JInt(200), outcome.json.ret), sleep |-> <<>>]
  ELSE IF outcome.status = 403 /\ attempt < max_retries - 1
  THEN [return |-> Nothing, sleep |-> <<wait_time(attempt)>>]
  ELSE IF Raised(outcome.text)
       THEN [return |-> Pair(JInt(outcome.status), None), sleep |-> <<>>]
       ELSE [return |-> Pair(JInt(outcome.status),
                             JDict([error |-> outcome.text.ret])),
             sleep |-> <<>>]

\* the loop iteration with an unparsable 200 body retried like a 403
RequestAttempt_BadJsonRetried(attempt, outcome) ==
  IF outcome.kind = "transport_error"
  THEN IF attempt < max_retries - 1
       THEN [return |-> Nothing, sleep |-> <<wait_time(attempt)>>]
       ELSE [return |-> Nothing, sleep |-> <<>>]
  ELSE IF outcome.status = 200
  THEN IF Raised(outcome.json)
       THEN IF attempt < max_retries - 1
            THEN [return |-> Nothing, sleep |-> <<wait_time(attempt)>>]
            ELSE [return |-> Pair(JInt(200), None), sleep |-> <<>>]
       ELSE [return |-> Pair(JInt(200), outcome.json.ret), sleep |-> <<>>]
  ELSE IF outcome.status = 403 /\ attempt < max_retries - 1
  THEN [return |-> Nothing, sleep |-> <<wait_time(attempt)>>]
  ELSE IF Raised(outcome.text)
       THEN [return |-> Pair(JInt(outcome.status), None), sleep |-> <<>>]
       ELSE [return |-> Pair(JInt(outcome.status),
                             JDict([error |-> outcome.text.ret])),
             sleep |-> <<>>]

\* the loop iteration that sleeps after a transport failure on the last
\* attempt too
RequestAttempt_SleepsAfterLast(attempt, outcome) ==
  IF outcome.kind = "transport_error"
  THEN [return |-> Nothing, sleep |-> <<wait_time(attempt)>>]
  ELSE IF outcome.status = 200
  THEN IF Raised(outcome.json)
       THEN [return |-> Pair(JInt(200), None), sleep |-> <<>>]
       ELSE [return |-> Pair(JInt(200), outcome.json.ret), sleep |-> <<>>]
  ELSE IF outcome.status = 403 /\ attempt < max_retries - 1
  THEN [return |-> Nothing, sleep |-> <<wait_time(attempt)>>]
  ELSE IF Raised(outcome.text)
       THEN [return |-> Pair(JInt(outcome.status), None), sleep |-> <<>>]
       ELSE [return |-> Pair(JInt(outcome.status),
                             JDict([error |-> outcome.text.ret])),
             sleep |-> <<>>]

\* One iteration of `for attempt in range(max_retries)`: what the client
\* returns from inside the loop (Nothing when the loop goes on) and the
\* sleeps of the iteration.
RequestAttempt(attempt, outcome) ==
  IF outcome.kind = "transport_error"
  THEN \* except Exception
       IF attempt < max_retries - 1
       THEN [return |-> Nothing, sleep |-> <<wait_time(attempt)>>]
       ELSE [return |-> Nothing, sleep |-> <<>>]
  ELSE IF outcome.status = 200
  THEN IF Raised(outcome.json)
       THEN [return |-> Pair(JInt(200), None), sleep |-> <<>>]
       ELSE [return |-> Pair(JInt(200), outcome.json.ret), sleep |-> <<>>]
  ELSE IF outcome.status = 403 /\ attempt < max_retries - 1
  THEN [return |-> Nothing, sleep |-> <<wait_time(attempt)>>]
  ELSE IF Raised(outcome.text)
       THEN [return |-> Pair(JInt(outcome.status), None), sleep |-> <<>>]
       ELSE [return |-> Pair(JInt(outcome.status),
                             JDict([error |-> outcome.text.ret])),
             sleep |-> <<>>]

\* the return after the loop: (None, None)
RetriesExhausted == Pair(None, None)

(***************************************************************************)
(* FetchService (RedditService): what each operation does with the pair    *)
(* the retry client returned.                                              *)
(***************************************************************************)
RECURSIVE NormalizeChildren(_, _, _)
\* for child in data["data"]["children"]: child.get("data", {}) and
\* normalize_post_data, in upstream order; the first failure ends the loop
NormalizeChildren(children, source_type, source_name) ==
  IF children = <<>> THEN Ret(<<>>)
  ELSE LET child == Head(children)
       IN IF ~IsDict(child) THEN Exc("AttributeError")
          ELSE LET post == normalize_post_data(DictGet(child, "data", EmptyDict),
                                               source_type, source_name)
                   rest == NormalizeChildren(Tail(children), source_type, source_name)
               IN IF Raised(post) THEN post
                  ELSE IF Raised(rest) THEN rest
                  ELSE Ret(<<post.ret>> \o rest.ret)

\* the status 200 branch of get_posts_from_subreddit and search_posts
ParseListing(data, source_type, source_name) ==
  LET hasData == KeyIn("data", data)
  IN IF Raised(hasData) THEN hasData
     ELSE IF ~hasData.ret THEN Ret(<<>>)
     ELSE IF ~IsDict(data) THEN Exc("TypeError")
     ELSE LET inner == data.dict["data"]
              hasChildren == KeyIn("children", inner)
          IN IF Raised(hasChildren) THEN hasChildren
             ELSE IF ~hasChildren.ret THEN Ret(<<>>)
             ELSE IF ~IsDict(inner) THEN Exc("TypeError")
             ELSE IF ~IsList(inner.dict["children"]) THEN Exc("TypeError")
             ELSE NormalizeChildren(inner.dict["children"].list,
                                    source_type, source_name)

\* the body of the try block of get_posts_from_subreddit and search_posts
\* after the request
ListingFromPair(pair, source_type, source_name) ==
  IF pair.status = None \/ pair.data = None THEN Ret(<<>>)
  ELSE IF pair.status = JInt(200)
  THEN ParseListing(pair.data, source_type, source_name)
  ELSE Ret(<<>>)

\* the operation without its try/except
CatchAll_Missing(r) == r

\* try: ... except Exception: return []
CatchAll(r) == IF Raised(r) THEN Ret(<<>>) ELSE r

\* get_posts_from_subreddit, given what the retry client returned
get_posts_from_subreddit(pair, subreddit) ==
  CatchAll(ListingFromPair(pair, JStr("subreddit"),
                           Txt(clean_subreddit_name(subreddit))))

\* search_posts, given what the retry client returned
search_posts(pair, query) ==
  CatchAll(ListingFromPair(pair, JStr("search"), Txt(query)))

\* the filter without its test for the deleted sentinel
IsLiveComment_KeepsDeleted(child, comment_data) ==
  /\ DictGet(child, "kind", None) = JStr("t1")
  /\ Truthy(DictGet(comment_data, "body", None))

\* comment_data.get("body") and comment_data.get("body") != "[deleted]"
\* and child.get("kind") == "t1"
IsLiveComment(child, comment_data) ==
  /\ DictGet(child, "kind", None) = JStr("t1")
  /\ Truthy(DictGet(comment_data, "body", None))
  /\ DictGet(comment_data, "body", None) # JStr("[deleted]")

RECURSIVE FilterComments(_, _)
\* for child in comments_data[:max_comments]: keep the live comments
FilterComments(children, post_id) ==
  IF children = <<>> THEN Ret(<<>>)
  ELSE LET child == Head(children)
       IN IF ~IsDict(child) THEN Exc("AttributeError")
          ELSE LET comment_data == DictGet(child, "data", EmptyDict)
               IN IF DictGet(child, "kind", None) = JStr("t1") /\ ~IsDict(comment_data)
                  THEN Exc("AttributeError")
                  ELSE LET rest == FilterComments(Tail(children), post_id)
                           keep == IsLiveComment(child, comment_data)
                           comment == normalize_comment_data(comment_data, post_id)
                       IN IF keep /\ Raised(comment) THEN comment
                          ELSE IF Raised(rest) THEN rest
                          ELSE IF keep THEN Ret(<<comment.ret>> \o rest.ret)
                          ELSE rest

\* seq[:n] for n >= 0
Take(seq, n) == SubSeq(seq, 1, IF n < Len(seq) THEN n ELSE Len(seq))

\* the status 200 branch of get_comments_for_post
ParseComments(data, post_id, max_comments) ==
  IF IsList(data) /\ Len(data.list) > 1
  THEN LET second == data.list[2]
       IN IF ~IsDict(second) THEN Exc("AttributeError")
          ELSE LET inner == DictGet(second, "data", EmptyDict)
               IN IF ~IsDict(inner) THEN Exc("AttributeError")
                  ELSE LET comments_data == DictGet(inner, "children", JList(<<>>))
                       IN IF ~IsList(comments_data) THEN Exc("TypeError")
                          ELSE FilterComments(Take(comments_data.list, max_comments),
                                              post_id)
  ELSE Ret(<<>>)

\* the body of the try block of get_comments_for_post after the request
CommentsFromPair(pair, post_id, max_comments) ==
  IF pair.status = None \/ pair.data = None THEN Ret(<<>>)
  ELSE IF pair.status = JInt(200)
  THEN ParseComments(pair.data, post_id, max_comments)
  ELSE Ret(<<>>)

\* get_comments_for_post, given what the retry client returned
\* (max_comments > 0: the call with max_comments <= 0 returns before it)
get_comments_for_post(pair, post_id, max_comments) ==
  CatchAll(CommentsFromPair(pair, post_id, max_comments))

\* _make_request_with_retry on the outcomes upstream gives to its requests,
\* from the given attempt on: the pair returned, the sleeps and the number
\* of requests made
RECURSIVE RetryFrom(_, _)
RetryFrom(attempt, outcomes) ==
  IF attempt >= max_retries \/ outcomes = <<>>
  THEN [return |-> RetriesExhausted, slept |-> <<>>, requests |-> 0]
  ELSE LET r == RequestAttempt(attempt, Head(outcomes))
           rest == RetryFrom(attempt + 1, Tail(outcomes))
       IN IF r.return # Nothing
          THEN [return |-> r.return, slept |-> r.sleep, requests |-> 1]
          ELSE [return |-> rest.return, slept |-> r.sleep \o rest.slept,
                requests |-> 1 + rest.requests]

make_request_with_retry(outcomes) == RetryFrom(0, outcomes)

(***************************************************************************)
(* Upstream: what the platform may answer.                                 *)
(***************************************************************************)
PostIds == <<"p1", "p2", "p3", "p4">>
CommentIds == <<"c1", "c2", "c3", "c4">>

Thing(kind, data) == JDict([kind |-> JStr(kind), data |-> data])
RawPost(p, nc) == JDict([id |-> JStr(PostIds[p]), num_comments |-> nc])
RawComment(p, body) == JDict([id |-> JStr(CommentIds[p]), body |-> body])

\* the posts upstream may put at place p of a listing: well-formed ones
\* with 0 comments, with comments and with a null comment count
GoodPostsAt(p) ==
  {Thing("t3", RawPost(p, JInt(0))), Thing("t3", RawPost(p, JInt(1))),
   Thing("t3", RawPost(p, None))}

\* ... and malformed ones: a created_utc that is no number, a child that
\* is no object, a child without data
BadPostsAt(p) ==
  {Thing("t3", JDict([id |-> JStr(PostIds[p]), created_utc |-> JStr("soon")])),
   None,
   JDict([kind |-> JStr("t3")])}

\* the children upstream may put at place p of a comment thread: a live
\* comment, a deleted one, one with an empty body, a "load more" node and a
\* child that is no object
CommentsAt(p) ==
  {Thing("t1", RawComment(p, JStr("hello"))),
   Thing("t1", RawComment(p, JStr("[deleted]"))),
   Thing("t1", RawComment(p, JStr(""))),
   Thing("more", JDict([id |-> JStr(CommentIds[p])])),
   None}

\* the sequences of n children whose p-th element is one of At(p)
ChildSeqs(n, At(_)) ==
  {s \in [1..n -> UNION {At(p) : p \in 1..n}] : \A p \in 1..n : s[p] \in At(p)}

AnyPostsAt(p) == GoodPostsAt(p) \cup BadPostsAt(p)

Listing(children) == JDict([data |-> JDict([children |-> JList(children)])])

\* bodies of the listing and search endpoints: the documented shape and
\* deviations from it
ListingBodies ==
  {Listing(s) : s \in UNION {ChildSeqs(n, AnyPostsAt) : n \in 0..MaxChildren}}
  \cup {EmptyDict, JDict([data |-> EmptyDict]), JDict([data |-> None]),
        JDict([data |-> JDict([children |-> None])]), JList(<<>>), JInt(7)}

PostEnvelope == Listing(<<>>)
Thread(children) ==
  JList(<<PostEnvelope, JDict([data |-> JDict([children |-> JList(children)])])>>)

\* bodies of the comment endpoint
CommentBodies ==
  {Thread(s) : s \in UNION {ChildSeqs(n, CommentsAt) : n \in 0..MaxCommentChildren}}
  \cup {JList(<<PostEnvelope>>), JList(<<PostEnvelope, None>>),
        JList(<<PostEnvelope, EmptyDict>>), EmptyDict}

OkResponse(body) == Response(200, Ret(body), Ret(JStr("")))
BadJsonResponse == Response(200, Exc("JSONDecodeError"), Ret(JStr("<html>")))
ErrorStatuses == {403, 404}
ErrorResponses ==
  {Response(s, Exc("ContentTypeError"), t) :
     s \in ErrorStatuses, t \in {Ret(JStr("blocked")), Exc("ClientPayloadError")}}

BodiesOf(name) ==
  IF name = "get_comments_for_post" THEN CommentBodies ELSE ListingBodies

\* what upstream may answer to one request of the operation
Outcomes(name) ==
  {TransportError, BadJsonResponse, OkResponse(None)}
  \cup ErrorResponses
  \cup {OkResponse(b) : b \in BodiesOf(name)}

(***************************************************************************)
(* State.                                                                  *)
(***************************************************************************)
VARIABLES
  input_data,   \* the configuration passed to run_scraper
  pc,           \* where the run is
  i,            \* scrape_subreddits: index of the community being processed
  j,            \* index of the post being enriched
  posts,        \* posts of the community (or of the search) being processed
  all_posts,    \* posts collected so far
  sink,         \* records given to Actor.push_data, in order
  summary,      \* values given to Actor.set_value("summary", ...)
  exit_code,    \* exit code given to Actor.fail, 0 when it was not called
  listed,       \* history: what each community's listing fetch returned
  handled,      \* history: how the processing of each community ended
  calls,        \* history: the operations the run called and its delays
  op,           \* the FetchService operation running on its own
  attempt,      \* retry client: the loop variable
  slept,        \* retry client: the sleeps of this call
  hist,         \* history: the outcomes of the requests of this call
  http,         \* the number of HTTP requests in flight
  resp,         \* what the retry client returned
  ret           \* what the operation returned

runVars == <<input_data, pc, i, j, posts, all_posts, sink, summary, exit_code,
             listed, handled, calls>>
fetchVars == <<op, attempt, slept, hist, http, resp, ret>>
vars == <<runVars, fetchVars>>

(***************************************************************************)
(* One FetchService operation, request by request.                         *)
(***************************************************************************)
SubredditA == <<"a">>
SubredditB == <<"r", "/", "b">>
Query == <<"q">>

GetPosts(subreddit) ==
  [name |-> "get_posts_from_subreddit", target |-> subreddit,
   post_id |-> JStr(""), max_comments |-> 0]
SearchPosts(query) ==
  [name |-> "search_posts", target |-> query, post_id |-> JStr(""),
   max_comments |-> 0]
GetComments(post_id, subreddit, max_comments) ==
  [name |-> "get_comments_for_post", target |-> subreddit, post_id |-> post_id,
   max_comments |-> max_comments]

Operations ==
  {GetPosts(SubredditA), GetPosts(SubredditB), SearchPosts(Query)}
  \cup {GetComments(JStr("p1"), SubredditA, m) :
          m \in (-1..MaxCommentsCap) \cup {MAX_COMMENTS_PER_REQUEST + 1}}

\* get_comments_for_post without its guard on max_comments
ReturnsAtOnce_Never(o) == FALSE

\* get_comments_for_post: if max_comments <= 0: return []
ReturnsAtOnce(o) == o.name = "get_comments_for_post" /\ o.max_comments <= 0

\* what the operation returns once the retry client has returned the pair
OperationResult(o, pair) ==
  CASE o.name = "get_posts_from_subreddit" -> get_posts_from_subreddit(pair, o.target)
    [] o.name = "search_posts" -> search_posts(pair, o.target)
    [] o.name = "get_comments_for_post" ->
         get_comments_for_post(pair, o.post_id, o.max_comments)

RunIdle ==
  /\ input_data = EmptyDict /\ pc = "fetch" /\ i = 0 /\ j = 0
  /\ posts = <<>> /\ all_posts = <<>> /\ sink = <<>> /\ summary = <<>>
  /\ exit_code = 0 /\ listed = <<>> /\ handled = <<>> /\ calls = <<>>

InitFetch ==
  /\ RunIdle
  /\ op \in Operations
  /\ attempt = 0 /\ slept = <<>> /\ hist = <<>> /\ http = 0
  /\ resp = Nothing /\ ret = Nothing

\* the request sent without waiting for the outcome of the one before
SendRequest_NoAwait ==
  /\ pc = "fetch" /\ ~ReturnsAtOnce(op)
  /\ resp = Nothing /\ ret = Nothing /\ Len(hist) + http < max_retries
  /\ http' = http + 1
  /\ UNCHANGED <<runVars, op, attempt, slept, hist, resp, ret>>

\* async with session.get(url): the request goes out; the coroutine is
\* suspended until its outcome arrives, so none is in flight when it is sent
SendRequest ==
  /\ pc = "fetch" /\ ~ReturnsAtOnce(op)
  /\ resp = Nothing /\ ret = Nothing /\ http = 0 /\ attempt < max_retries
  /\ http' = http + 1
  /\ UNCHANGED <<runVars, op, attempt, slept, hist, resp, ret>>

\* the outcome of the request arrives: the rest of the loop iteration, its
\* sleep included, and the return after the loop when it was the last one
ReceiveOutcome ==
  /\ pc = "fetch" /\ http > 0
  /\ \E outcome \in Outcomes(op.name) :
       LET r == RequestAttempt(attempt, outcome)
       IN /\ hist' = Append(hist, outcome)
          /\ slept' = slept \o r.sleep
          /\ attempt' = IF r.return = Nothing THEN attempt + 1 ELSE attempt
          /\ resp' = IF r.return # Nothing THEN r.return
                     ELSE IF attempt + 1 >= max_retries THEN RetriesExhausted
                     ELSE Nothing
  /\ http' = http - 1
  /\ UNCHANGED <<runVars, op, ret>>

\* the operation handles the pair and returns
OperationReturns ==
  /\ pc = "fetch" /\ resp # Nothing /\ ret = Nothing
  /\ ret' = OperationResult(op, resp)
  /\ UNCHANGED <<runVars, op, attempt, slept, hist, http, resp>>

\* get_comments_for_post with max_comments <= 0 returns without a request
OperationReturnsAtOnce ==
  /\ pc = "fetch" /\ ReturnsAtOnce(op) /\ ret = Nothing
  /\ ret' = Ret(<<>>)
  /\ UNCHANGED <<runVars, op, attempt, slept, hist, http, resp>>

NextFetch ==
  \/ SendRequest
  \/ ReceiveOutcome
  \/ OperationReturns
  \/ OperationReturnsAtOnce

SpecFetch == InitFetch /\ [][NextFetch]_vars

(***************************************************************************)
(* Configuration (run_scraper, validate_input).                            *)
(***************************************************************************)
\* input_data.get(key, default)
Config(key, default) == DictGet(input_data, key, default)

subreddits == Config("subreddits", JList(<<>>))
search_query == Config("searchQuery", Txt(<<>>))
sort_by == Config("sortBy", JStr(DEFAULT_SORT))
limit == Config("limit", JInt(DEFAULT_LIMIT))
include_comments == Config("includeComments", JBool(FALSE))
max_comments_per_post == Config("maxCommentsPerPost", JInt(DEFAULT_MAX_COMMENTS))

\* helpers.validate_input: returns None or raises ValueError
validate_input(data) ==
  LET subs == DictGet(data, "subreddits", JList(<<>>))
      query == DictGet(data, "searchQuery", Txt(<<>>))
      sort == DictGet(data, "sortBy", JStr("new"))
      lim == DictGet(data, "limit", JInt(25))
  IN IF ~Truthy(subs) /\ ~Truthy(query) THEN Exc("ValueError")
     ELSE IF ~(IsStr(sort) /\ sort.str \in {"new", "hot", "top", "rising"})
     THEN Exc("ValueError")
     ELSE IF ~IsInstanceInt(lim) \/ IntValue(lim) < 1 \/ IntValue(lim) > 100
     THEN Exc("ValueError")
     ELSE Ret(None)

\* the configurations a run starts from
SubredditLists ==
  {<<>>, <<Txt(SubredditA)>>, <<Txt(SubredditA), Txt(SubredditB)>>}

\* A run has at most two sources (two communities, or one and a search),
\* and the comment cap varies only where comments are fetched.
Inputs ==
  {EmptyDict, JDict([subreddits |-> JList(<<Txt(SubredditA)>>)]),
   JDict([searchQuery |-> Txt(Query), limit |-> JStr("25")])}
  \cup {JDict([subreddits |-> JList(s), searchQuery |-> q, sortBy |-> JStr(so),
               limit |-> JInt(l), includeComments |-> JBool(c),
               maxCommentsPerPost |-> JInt(m)]) :
          <<s, q, c, m>> \in
            {t \in SubredditLists \X {Txt(<<>>), Txt(Query)} \X BOOLEAN
                   \X (0..MaxCommentsCap) :
               /\ ~(t[1] \notin {<<>>, <<Txt(SubredditA)>>} /\ Truthy(t[2]))
               /\ (t[3] \/ t[4] = MaxCommentsCap)},
          so \in {"new", "bogus"}, l \in {0, 25, 101}}

(***************************************************************************)
(* What upstream answers during a run: for each operation, the outcomes of *)
(* the requests of one call.                                               *)
(***************************************************************************)
Blocked == Response(403, Exc("ContentTypeError"), Ret(JStr("blocked")))
NotFound == Response(404, Exc("ContentTypeError"), Ret(JStr("not found")))

RunListingBodies ==
  {Listing(s) : s \in UNION {ChildSeqs(n, GoodPostsAt) : n \in 0..MaxChildren}}
  \cup {JDict([data |-> None])}

RunCommentBodies ==
  {Thread(<<>>), Thread(<<Thing("t1", RawComment(1, JStr("hello")))>>),
   Thread(<<Thing("t1", RawComment(1, JStr("[deleted]")))>>),
   JList(<<PostEnvelope, None>>)}

RunBodiesOf(name) ==
  IF name = "get_comments_for_post" THEN RunCommentBodies ELSE RunListingBodies

RunHistories(name) ==
  {<<OkResponse(b)>> : b \in RunBodiesOf(name)}
  \cup {<<TransportError, OkResponse(b)>> : b \in RunBodiesOf(name)}
  \cup {<<BadJsonResponse>>, <<NotFound>>, <<Blocked, Blocked, Blocked>>,
        <<Blocked, TransportError, TransportError>>}

\* the pairs the retry client may return to the operation during a run
RunPairs(name) ==
  {make_request_with_retry(h).return : h \in RunHistories(name)}

(***************************************************************************)
(* The run (run_scraper, scrape_subreddits, search_reddit).                *)
(***************************************************************************)
FetchIdle ==
  /\ op = Nothing /\ attempt = 0 /\ slept = <<>> /\ hist = <<>>
  /\ http = 0 /\ resp = Nothing /\ ret = Nothing

Init ==
  /\ input_data \in Inputs
  /\ pc = "start" /\ i = 0 /\ j = 0
  /\ posts = <<>> /\ all_posts = <<>> /\ sink = <<>> /\ summary = <<>>
  /\ exit_code = 0 /\ listed = <<>> /\ handled = <<>> /\ calls = <<>>
  /\ FetchIdle

NumSubreddits == Len(subreddits.list)

\* where run_scraper goes once the loop of scrape_subreddits is over
AfterSubreddits == IF Truthy(search_query) THEN "search_listing" ELSE "push"

\* where run_scraper goes first
FirstStep == IF Truthy(subreddits) THEN "sub_listing" ELSE AfterSubreddits

\* the run going on whatever validate_input raised
Validate_Ignored ==
  /\ pc = "start"
  /\ pc' = FirstStep /\ exit_code' = exit_code /\ i' = 1
  /\ UNCHANGED <<input_data, j, posts, all_posts, sink, summary, listed, handled,
                 calls, fetchVars>>

\* try: validate_input(input_data) except ValueError: Actor.fail(exit_code=1)
Validate ==
  /\ pc = "start"
  /\ IF Raised(validate_input(input_data))
     THEN pc' = "failed" /\ exit_code' = 1 /\ i' = i
     ELSE pc' = FirstStep /\ exit_code' = exit_code /\ i' = 1
  /\ UNCHANGED <<input_data, j, posts, all_posts, sink, summary, listed, handled,
                 calls, fetchVars>>

\* the enrichment loop entered whatever includeComments says
AfterListing_AlwaysEnrich(enrich, extend, fetched) ==
  IF fetched # <<>> THEN enrich ELSE extend

\* where the processing of a listing goes with the posts it fetched:
\* to the enrichment loop (if include_comments: for post in posts), or past it
AfterListing(enrich, extend, fetched) ==
  IF Truthy(include_comments) /\ fetched # <<>> THEN enrich ELSE extend

\* posts = await reddit_service.get_posts_from_subreddit(...)
ScrapeListing ==
  /\ pc = "sub_listing"
  /\ \E pair \in RunPairs("get_posts_from_subreddit") :
       LET r == get_posts_from_subreddit(pair, subreddits.list[i].chars)
       IN /\ posts' = r.ret
          /\ listed' = Append(listed, r.ret)
          /\ pc' = AfterListing("sub_enrich", "sub_extend", r.ret)
  /\ j' = 1
  /\ calls' = Append(calls, GetPosts(subreddits.list[i].chars))
  /\ UNCHANGED <<input_data, i, all_posts, sink, summary, exit_code, handled,
                 fetchVars>>

\* post["comments"] = comments
WithComments(post, comments) ==
  [k \in DOMAIN post \cup {"comments"} |->
     IF k = "comments" THEN comments ELSE post[k]]

\* what get_comments_for_post may return for the post during a run
CommentResults(o) ==
  IF ReturnsAtOnce(o) THEN {<<>>}
  ELSE {OperationResult(o, pair).ret : pair \in RunPairs(o.name)}

\* the handler leaving the loop instead of continuing
CommunityRaises_Aborts ==
  /\ handled' = Append(handled, "raised")
  /\ posts' = <<>>
  /\ j' = 1
  /\ i' = i /\ pc' = AfterSubreddits
  /\ exit_code' = exit_code

\* except Exception in scrape_subreddits: log and continue with the next
\* community; the posts of this one are dropped and no delay is slept
CommunityRaises ==
  /\ handled' = Append(handled, "raised")
  /\ posts' = <<>>
  /\ j' = 1
  /\ IF i < NumSubreddits
     THEN i' = i + 1 /\ pc' = "sub_listing"
     ELSE i' = i /\ pc' = AfterSubreddits
  /\ exit_code' = exit_code

\* the exception leaving run_scraper with no failure reported
FatalError_Propagates ==
  /\ pc' = "crashed"
  /\ exit_code' = exit_code

\* except Exception in run_scraper: Actor.fail(exit_code=1)
FatalError ==
  /\ pc' = "failed"
  /\ exit_code' = 1

\* One turn of `for post in posts`: if post.get("num_comments", 0) > 0, the
\* comments are fetched and attached.  The comparison raises on a comment
\* count that is no number: in scrape_subreddits the community's handler
\* catches it, in search_reddit it reaches run_scraper.
EnrichPost ==
  /\ pc \in {"sub_enrich", "search_enrich"}
  /\ LET post == posts[j]
         wanted == GreaterThanZero(post.num_comments)
         o == GetComments(post.id, post.subreddit.chars, max_comments_per_post.int)
         next == IF j < Len(posts) THEN pc
                 ELSE IF pc = "sub_enrich" THEN "sub_extend" ELSE "search_extend"
     IN IF Raised(wanted)
        THEN /\ IF pc = "sub_enrich"
                THEN CommunityRaises
                ELSE FatalError /\ UNCHANGED <<i, j, posts, handled>>
             /\ calls' = calls
        ELSE IF wanted.ret
        THEN /\ \E comments \in CommentResults(o) :
                  posts' = [posts EXCEPT ![j] = WithComments(post, comments)]
             /\ calls' = Append(calls, o)
             /\ j' = j + 1 /\ pc' = next
             /\ UNCHANGED <<i, handled, exit_code>>
        ELSE /\ j' = j + 1 /\ pc' = next
             /\ UNCHANGED <<i, posts, handled, exit_code, calls>>
  /\ UNCHANGED <<input_data, all_posts, sink, summary, listed, fetchVars>>

\* the posts of the community put in front of the earlier ones
ScrapeExtend_Prepends ==
  /\ pc = "sub_extend"
  /\ all_posts' = posts \o all_posts
  /\ handled' = Append(handled, "completed")
  /\ posts' = <<>>
  /\ pc' = IF i < NumSubreddits THEN "sub_sleep" ELSE AfterSubreddits
  /\ UNCHANGED <<input_data, i, j, sink, summary, exit_code, listed, calls,
                 fetchVars>>

\* the posts of the community forwarded to the sink as soon as collected
ScrapeExtend_Forwards ==
  /\ pc = "sub_extend"
  /\ all_posts' = all_posts \o posts
  /\ sink' = sink \o posts
  /\ handled' = Append(handled, "completed")
  /\ posts' = <<>>
  /\ pc' = IF i < NumSubreddits THEN "sub_sleep" ELSE AfterSubreddits
  /\ UNCHANGED <<input_data, i, j, summary, exit_code, listed, calls,
                 fetchVars>>

\* all_posts.extend(posts), then the delay when a community follows
ScrapeExtend ==
  /\ pc = "sub_extend"
  /\ all_posts' = all_posts \o posts
  /\ handled' = Append(handled, "completed")
  /\ posts' = <<>>
  /\ pc' = IF i < NumSubreddits THEN "sub_sleep" ELSE AfterSubreddits
  /\ UNCHANGED <<input_data, i, j, sink, summary, exit_code, listed, calls,
                 fetchVars>>

\* asyncio.sleep(DELAY_BETWEEN_SUBREDDITS_SECONDS) in the history
Delay == [name |-> "sleep", seconds |-> DELAY_BETWEEN_SUBREDDITS_SECONDS]

\* await asyncio.sleep(DELAY_BETWEEN_SUBREDDITS_SECONDS), then the next
\* turn of the loop
ScrapeSleep ==
  /\ pc = "sub_sleep"
  /\ i' = i + 1
  /\ pc' = "sub_listing"
  /\ calls' = Append(calls, Delay)
  /\ UNCHANGED <<input_data, j, posts, all_posts, sink, summary, exit_code,
                 listed, handled, fetchVars>>

\* posts = await reddit_service.search_posts(...)
SearchListing ==
  /\ pc = "search_listing"
  /\ \E pair \in RunPairs("search_posts") :
       LET r == search_posts(pair, search_query.chars)
       IN /\ posts' = r.ret
          /\ pc' = AfterListing("search_enrich", "search_extend", r.ret)
  /\ j' = 1
  /\ calls' = Append(calls, SearchPosts(search_query.chars))
  /\ UNCHANGED <<input_data, i, all_posts, sink, summary, exit_code, listed,
                 handled, fetchVars>>

\* search_reddit returns: all_posts.extend(search_posts)
SearchExtend ==
  /\ pc = "search_extend"
  /\ all_posts' = all_posts \o posts
  /\ posts' = <<>>
  /\ pc' = "push"
  /\ UNCHANGED <<input_data, i, j, sink, summary, exit_code, listed, handled,
                 calls, fetchVars>>

\* for post in all_posts: await Actor.push_data(post)
PushData ==
  /\ pc = "push" /\ Len(sink) < Len(all_posts)
  /\ sink' = Append(sink, all_posts[Len(sink) + 1])
  /\ UNCHANGED <<input_data, pc, i, j, posts, all_posts, summary, exit_code,
                 listed, handled, calls, fetchVars>>

\* Actor.push_data raises
PushDataFails ==
  /\ pc = "push" /\ Len(sink) < Len(all_posts)
  /\ FatalError
  /\ UNCHANGED <<input_data, i, j, posts, all_posts, sink, summary, listed,
                 handled, calls, fetchVars>>

\* a summary that counts only the communities that completed
SummaryValue_CountsCompleted(collected, communities, query) ==
  [totalPosts |-> Len(collected),
   subredditsScraped |->
     Cardinality({k \in DOMAIN handled : handled[k] = "completed"}),
   searchQuery |-> IF Truthy(query) THEN query ELSE None,
   timestamp |-> "now"]

\* the value of the summary
SummaryValue(collected, communities, query) ==
  [totalPosts |-> Len(collected),
   subredditsScraped |-> Len(communities.list),
   searchQuery |-> IF Truthy(query) THEN query ELSE None,
   timestamp |-> "now"]

\* the summary written while posts are still to be forwarded
SetSummary_BeforePush ==
  /\ pc = "push"
  /\ summary' = Append(summary, SummaryValue(all_posts, subreddits, search_query))
  /\ pc' = "done"
  /\ UNCHANGED <<input_data, i, j, posts, all_posts, sink, exit_code, listed,
                 handled, calls, fetchVars>>

\* await Actor.set_value("summary", {...})
SetSummary ==
  /\ pc = "push" /\ Len(sink) = Len(all_posts)
  /\ summary' = Append(summary, SummaryValue(all_posts, subreddits, search_query))
  /\ pc' = "done"
  /\ UNCHANGED <<input_data, i, j, posts, all_posts, sink, exit_code, listed,
                 handled, calls, fetchVars>>

\* Actor.set_value raises
SetSummaryFails ==
  /\ pc = "push" /\ Len(sink) = Len(all_posts)
  /\ FatalError
  /\ UNCHANGED <<input_data, i, j, posts, all_posts, sink, summary, listed,
                 handled, calls, fetchVars>>

Next ==
  \/ Validate
  \/ ScrapeListing
  \/ EnrichPost
  \/ ScrapeExtend
  \/ ScrapeSleep
  \/ SearchListing
  \/ SearchExtend
  \/ PushData
  \/ PushDataFails
  \/ SetSummary
  \/ SetSummaryFails

Spec == Init /\ [][Next]_vars

(***************************************************************************)
(* The retry client and the fetch operations: properties (SpecFetch).      *)
(***************************************************************************)
Is403(outcome) == outcome.kind = "response" /\ outcome.status = 403
IsTransportError(outcome) == outcome.kind = "transport_error"
Last(s) == s[Len(s)]

\* the call has ended and every request of it was answered 403
Persistent403 ==
  /\ resp # Nothing /\ hist # <<>>
  /\ \A k \in DOMAIN hist : Is403(hist[k])

\* the pair carries a real status and the error body, or no body when the
\* body could not be read
IsErrorPair(pair, outcome) ==
  /\ pair.status = JInt(outcome.status)
  /\ IF Raised(outcome.text) THEN pair.data = None
     ELSE pair.data = JDict([error |-> outcome.text.ret])

LastIsFinalError ==
  /\ hist # <<>>
  /\ Last(hist).kind = "response"
  /\ Last(hist).status # 200
  /\ ~(Last(hist).status = 403 /\ Len(hist) - 1 < 3 - 1)

\* no sleep follows the last outcome, and no request is out
NothingFollowsLast == Len(slept) = Len(hist) - 1 /\ http = 0

\* C2 as stated: such a response makes the call return
\* (statusCode, {error: bodyText}), with no sleep and no further request
C2_AsStated ==
  LastIsFinalError =>
    /\ resp # Nothing
    /\ resp.status = JInt(Last(hist).status)
    /\ IsDict(resp.data) /\ "error" \in DOMAIN resp.data.dict
    /\ NothingFollowsLast

\* C2, amended: such a response makes the call return at once
\* (statusCode, {error: bodyText}), or (statusCode, null) when reading the
\* body text fails; no sleep and no further request follows it in the call
C2_FinalErrorReturnsAtOnce ==
  /\ [](LastIsFinalError =>
          /\ resp # Nothing
          /\ IsErrorPair(resp, Last(hist))
          /\ NothingFollowsLast)
  /\ [][LastIsFinalError => (hist' = hist /\ slept' = slept /\ http' = http
                             /\ resp' = resp)]_vars

C2_Witness ==
  /\ LastIsFinalError /\ ret # Nothing
  /\ resp = Pair(JInt(404), JDict([error |-> JStr("blocked")]))

\* the call has not ended and attempts remain: the next request follows
RetryIsNext == resp = Nothing /\ attempt < 3

\* the k-th outcome is a 403 received while attempts remain
Retried403(k) == Is403(hist[k]) /\ k - 1 < 3 - 1

C4_TransportFailureRetried ==
  /\ \A k \in DOMAIN hist :
       (IsTransportError(hist[k]) /\ k - 1 < 3 - 1) =>
         /\ Len(slept) >= k
         /\ slept[k] = 2 * Pow2(k - 1)
         /\ (k = Len(hist) => (RetryIsNext /\ attempt = k))
  /\ (hist # <<>> /\ IsTransportError(Last(hist)) /\ Len(hist) = 3) =>
       resp = Pair(None, None)
  /\ resp # Nothing =>
       /\ DOMAIN resp = {"status", "data"}
       /\ (resp.status = None <=> IsTransportError(Last(hist)))
       /\ (resp.status = None => resp.data = None)
       /\ (Last(hist).kind = "response" =>
             resp.status = JInt(Last(hist).status))

C4_Witness ==
  /\ ret = Ret(<<>>) /\ resp = Pair(None, None)
  /\ Is403(hist[1]) /\ IsTransportError(hist[2]) /\ IsTransportError(hist[3])
  /\ slept = <<2, 4>>

\* the pair is a 200 with a body
UsablePair == resp # Nothing /\ resp.status = JInt(200) /\ resp.data # None

\* C5: whatever the HTTP outcome and the shape of the body, each of the
\* three operations returns a sequence and does not raise, and the sequence
\* is empty whenever the outcome is not a 200 with a usable body
C5_OperationsNeverRaise ==
  ret # Nothing =>
    /\ ~Raised(ret)
    /\ DOMAIN ret.ret = 1..Len(ret.ret)
    /\ (~UsablePair => ret.ret = <<>>)

\* a 200 whose body makes the parsing fail inside the operation
C5_Witness ==
  /\ ret = Ret(<<>>)
  /\ UsablePair
  /\ resp.data \in {JDict([data |-> None]), JList(<<PostEnvelope, None>>), JInt(7)}

(***************************************************************************)
(* The run: properties (Spec).                                             *)
(***************************************************************************)
\* what identifies a post, whatever comments were attached to it
Key(post) == <<post.source_name, post.id>>
Keys(seq) == [k \in DOMAIN seq |-> Key(seq[k])]

\* the configuration passes validation
Valid == ~Raised(validate_input(input_data))

\* the number of communities in the configuration
ConfiguredCommunities ==
  IF "subreddits" \in DOMAIN input_data.dict
  THEN Len(input_data.dict.subreddits.list)
  ELSE 0

\* every post a listing fetch returned is in the sink
AllListedForwarded ==
  \A k \in DOMAIN listed : \A n \in DOMAIN listed[k] :
    \E x \in DOMAIN sink : Key(sink[x]) = Key(listed[k][n])

\* C6: every post returned by a listing fetch has been forwarded to the sink
\* when the run completes, whatever failed after it was fetched
C6_FetchedPostsAreForwarded == pc = "done" => AllListedForwarded

IsCommunityPost(post) == post.source_type = JStr("subreddit")

RECURSIVE CompletedKeys(_)
\* the posts listed for the first k communities, those of the communities
\* whose processing raised left out
CompletedKeys(k) ==
  IF k = 0 THEN <<>>
  ELSE CompletedKeys(k - 1)
       \o (IF handled[k] = "completed" THEN Keys(listed[k]) ELSE <<>>)

\* the loop of scrape_subreddits is over
LoopIsOver ==
  /\ Valid
  /\ pc \in {"search_listing", "search_enrich", "search_extend", "push",
             "done", "failed"}

\* C7: a community whose processing raises contributes no posts and does not
\* abort the run: every community of the list is processed, and the posts
\* collected are exactly those of the communities that completed, in order
C7_CommunityFailureIsolated ==
  /\ Keys(SelectSeq(all_posts, IsCommunityPost)) = CompletedKeys(Len(handled))
  /\ LoopIsOver =>
       /\ Len(handled) = ConfiguredCommunities
       /\ Len(listed) = ConfiguredCommunities
  /\ pc = "done" => Keys(SelectSeq(sink, IsCommunityPost)) = CompletedKeys(Len(handled))

\* two communities, the first yields 2 posts, the second raises
C7_Witness ==
  /\ pc = "done"
  /\ handled = <<"completed", "raised">>
  /\ Len(listed[2]) > 0
  /\ Keys(sink) = Keys(listed[1]) /\ Len(sink) = 2
  /\ summary[1].subredditsScraped = 2

\* C8 as stated, read on the runs that fetch no comments (they are enough
\* to decide it): every run whose configuration passes validation has
\* emitted exactly one summary record when it ends
C8_AsStated ==
  (Valid /\ ~Truthy(include_comments) /\ pc \in {"done", "failed"})
    => Len(summary) = 1

\* C8, amended: a run whose configuration passes validation emits at most
\* one summary record: exactly one, after the last Post has been forwarded,
\* when it completes, and none when an exception escapes the orchestration
\* and the run reports failure
C8_OneSummaryAfterLastPost ==
  /\ [](/\ Len(summary) <= 1
        /\ (pc = "done" => (Valid /\ Len(summary) = 1 /\ sink = all_posts))
        /\ (summary # <<>> => pc = "done")
        /\ (pc = "failed" => (summary = <<>> /\ exit_code = 1)))
  /\ [][summary # <<>> => (sink' = sink /\ summary' = summary)]_vars

C8_Witness == pc = "done" /\ Len(summary) = 1 /\ Len(sink) = 2

\* C9: a summary's totalPosts is the number of posts forwarded to the sink
\* and its subredditsScraped the number of communities configured, those
\* whose processing failed included
C9_SummaryCounts ==
  \A k \in DOMAIN summary :
    /\ summary[k].totalPosts = Len(sink)
    /\ summary[k].subredditsScraped = ConfiguredCommunities

C9_Witness ==
  /\ summary # <<>>
  /\ handled = <<"raised", "completed">>
  /\ summary[1].totalPosts = 1 /\ summary[1].subredditsScraped = 2

\* the community of the list a post was fetched for; the search comes last
SourceRank(post) ==
  IF post.source_type = JStr("search") THEN ConfiguredCommunities + 1
  ELSE CHOOSE k \in 1..ConfiguredCommunities :
         Txt(clean_subreddit_name(subreddits.list[k].chars)) = post.source_name

RECURSIVE PostsOfRank(_, _)
PostsOfRank(seq, k) ==
  IF seq = <<>> THEN <<>>
  ELSE (IF SourceRank(Head(seq)) = k THEN <<Head(seq)>> ELSE <<>>)
       \o PostsOfRank(Tail(seq), k)

IsPrefix(s, t) == Len(s) <= Len(t) /\ s = SubSeq(t, 1, Len(s))

\* C10: posts reach the sink one per call, in the order produced: the posts
\* of an earlier community before those of a later one, the posts of one
\* community in upstream order, the search results after every community
\* post
C10_SinkOrder ==
  /\ [](/\ \A x, y \in DOMAIN sink :
             x < y => SourceRank(sink[x]) <= SourceRank(sink[y])
        /\ \A k \in DOMAIN listed :
             IsPrefix(Keys(PostsOfRank(sink, k)), Keys(listed[k]))
        /\ IsPrefix(sink, all_posts))
  /\ [][sink' = sink \/ (Len(sink') = Len(sink) + 1 /\ IsPrefix(sink, sink'))]_vars

C10_Witness ==
  /\ Len(sink) = 4
  /\ SourceRank(sink[2]) = 1 /\ SourceRank(sink[3]) = 2
  /\ sink[1].id = JStr("p1") /\ sink[2].id = JStr("p2")

(***************************************************************************)
(* C11: a configuration that fails validation.                             *)
(***************************************************************************)
Invalid == Raised(validate_input(input_data))

\* C11: once validation has rejected the configuration the run has reported
\* failure with a non-zero exit code, and it has called no fetch operation
\* (so sent no HTTP request), forwarded nothing and written no summary
C11_InvalidConfigurationFailsFast ==
  (Invalid /\ pc # "start")
    => /\ pc = "failed" /\ exit_code # 0
       /\ calls = <<>> /\ sink = <<>> /\ summary = <<>>

C11_Witness ==
  /\ Invalid /\ pc = "failed" /\ exit_code = 1
  /\ Truthy(subreddits) /\ calls = <<>>

(***************************************************************************)
(* URL builders (RedditService._build_subreddit_url, _build_search_url).   *)
(* A URL is the sequence of its pieces: text that comes from a caller's    *)
(* string (a community name, a query, the digits of a number) is given     *)
(* character by character, fixed text and the sort and time-filter words   *)
(* are one element each.                                                   *)
(***************************************************************************)
REDDIT_BASE_URL == "https://old.reddit.com"
VALID_TIME_FILTERS == {"hour", "day", "week", "month", "year", "all"}

Digit == <<"0", "1", "2", "3", "4", "5", "6", "7", "8", "9">>

RECURSIVE Digits(_)
\* the decimal digits of n >= 0
Digits(n) ==
  IF n < 10 THEN <<Digit[n + 1]>>
  ELSE Digits(n \div 10) \o <<Digit[(n % 10) + 1]>>

\* str(n) for an int
Str(n) == IF n < 0 THEN <<"-">> \o Digits(-n) ELSE Digits(n)

\* min(a, b)
Min(a, b) == IF b < a THEN b ELSE a

RECURSIVE JoinParams(_)
\* "&".join([f"{k}={v}" for k, v in params.items()]), the dict given as
\* the sequence of its (key, value) pairs in insertion order
JoinParams(params) ==
  IF params = <<>> THEN <<>>
  ELSE LET kv == <<Head(params)[1], "=">> \o Head(params)[2]
       IN IF Len(params) = 1 THEN kv
          ELSE kv \o <<"&">> \o JoinParams(Tail(params))

\* the builder with the time filter appended whatever the sort
build_subreddit_url_AlwaysT(subreddit, sort, time_filter, lim) ==
  LET clean_name == clean_subreddit_name(subreddit)
      url == <<REDDIT_BASE_URL, "/r/">> \o clean_name \o <<"/", sort, ".json">>
      params ==
        <<<<"limit", Str(Min(lim, MAX_POSTS_PER_REQUEST))>>>>
        \o (IF time_filter \in VALID_TIME_FILTERS
            THEN <<<<"t", <<time_filter>>>>>>
            ELSE <<>>)
  IN url \o <<"?">> \o JoinParams(params)

\* RedditService._build_subreddit_url
build_subreddit_url(subreddit, sort, time_filter, lim) ==
  LET clean_name == clean_subreddit_name(subreddit)
      url == <<REDDIT_BASE_URL, "/r/">> \o clean_name \o <<"/", sort, ".json">>
      params ==
        <<<<"limit", Str(Min(lim, MAX_POSTS_PER_REQUEST))>>>>
        \o (IF sort = "top" /\ time_filter \in VALID_TIME_FILTERS
            THEN <<<<"t", <<time_filter>>>>>>
            ELSE <<>>)
  IN url \o <<"?">> \o JoinParams(params)

\* RedditService._build_search_url
build_search_url(query, sort, lim) ==
  LET url == <<REDDIT_BASE_URL, "/search.json">>
      params == <<<<"q", query>>,
                  <<"limit", Str(Min(lim, MAX_POSTS_PER_REQUEST))>>,
                  <<"sort", <<sort>>>>>>
  IN url \o <<"?">> \o JoinParams(params)

\* the URL of a comment thread with the cap given as it is
full_url_Unclamped(subreddit, post_id, max_comments) ==
  LET clean_name == clean_subreddit_name(subreddit)
      url == <<REDDIT_BASE_URL, "/r/">> \o clean_name
             \o <<"/comments/", post_id.str, ".json">>
      params == <<<<"limit", Str(max_comments)>>>>
  IN url \o <<"?">> \o JoinParams(params)

\* RedditService.get_comments_for_post: the URL it requests
full_url(subreddit, post_id, max_comments) ==
  LET clean_name == clean_subreddit_name(subreddit)
      url == <<REDDIT_BASE_URL, "/r/">> \o clean_name
             \o <<"/comments/", post_id.str, ".json">>
      params == <<<<"limit", Str(Min(max_comments, MAX_COMMENTS_PER_REQUEST))>>>>
  IN url \o <<"?">> \o JoinParams(params)

(***************************************************************************)
(* Tabular export (helpers.export_posts_with_comments_to_csv).  The CSV    *)
(* text is the header line and the sequence of the rows written; a row is  *)
(* the mapping given to writer.writerow.                                   *)
(***************************************************************************)
\* the columns of the post-with-comments layout, in order
columns ==
  <<"post_id", "post_title", "post_selftext", "post_author", "subreddit",
    "post_score", "upvote_ratio", "num_comments", "post_created_utc",
    "post_created_at", "post_url", "post_permalink", "is_self", "is_video",
    "thumbnail", "domain", "source_type", "source_name", "comment_id",
    "comment_author", "comment_body", "comment_score", "comment_created_utc",
    "comment_created_at", "comment_permalink", "is_submitter", "row_type">>

\* record.get(key, default) for a Post or a Comment
Get(record, key, default) ==
  IF key \in DOMAIN record THEN record[key] ELSE default

\* str(v).lower() for the values the flags take: a bool or None
LowerStr(v) ==
  CASE IsBool(v) -> JStr(IF v.bool THEN "true" ELSE "false")
    [] v = None -> JStr("none")

\* for key in row: if row[key] is None: row[key] = ""
NoneToEmpty(row) ==
  [k \in DOMAIN row |-> IF row[k] = None THEN JStr("") ELSE row[k]]

\* the row of a post: its fields under the post columns, the comment
\* columns empty, row_type "post"
post_data(post) ==
  NoneToEmpty(
    [post_id |-> Get(post, "id", JStr("")),
     post_title |-> Get(post, "title", JStr("")),
     post_selftext |-> Get(post, "selftext", JStr("")),
     post_author |-> Get(post, "author", JStr("")),
     subreddit |-> Get(post, "subreddit", JStr("")),
     post_score |-> Get(post, "score", JInt(0)),
     upvote_ratio |-> Get(post, "upvote_ratio", JInt(0)),
     num_comments |-> Get(post, "num_comments", JInt(0)),
     post_created_utc |-> Get(post, "created_utc", JInt(0)),
     post_created_at |-> Get(post, "created_at", JStr("")),
     post_url |-> Get(post, "url", JStr("")),
     post_permalink |-> Get(post, "permalink", JStr("")),
     is_self |-> LowerStr(Get(post, "is_self", JBool(FALSE))),
     is_video |-> LowerStr(Get(post, "is_video", JBool(FALSE))),
     thumbnail |-> Get(post, "thumbnail", JStr("")),
     domain |-> Get(post, "domain", JStr("")),
     source_type |-> Get(post, "source_type", JStr("")),
     source_name |-> Get(post, "source_name", JStr("")),
     comment_id |-> JStr(""),
     comment_author |-> JStr(""),
     comment_body |-> JStr(""),
     comment_score |-> JStr(""),
     comment_created_utc |-> JStr(""),
     comment_created_at |-> JStr(""),
     comment_permalink |-> JStr(""),
     is_submitter |-> JStr(""),
     row_type |-> JStr("post")])

\* the row of a comment: a copy of the post's row with the comment columns
\* and row_type "comment"
comment_row(post_row, comment) ==
  NoneToEmpty(
    [comment_id |-> Get(comment, "id", JStr("")),
     comment_author |-> Get(comment, "author", JStr("")),
     comment_body |-> Get(comment, "body", JStr("")),
     comment_score |-> Get(comment, "score", JInt(0)),
     comment_created_utc |-> Get(comment, "created_utc", JInt(0)),
     comment_created_at |-> Get(comment, "created_at", JStr("")),
     comment_permalink |-> Get(comment, "permalink", JStr("")),
     is_submitter |-> LowerStr(Get(comment, "is_submitter", JBool(FALSE))),
     row_type |-> JStr("comment")]
    @@ post_row)

\* the turn of the loop that writes the post's row only for a post without
\* comments
PostRows_NoPostRowWithComments(post) ==
  LET comments == Get(post, "comments", <<>>)
  IN IF comments # <<>>
     THEN [n \in DOMAIN comments |-> comment_row(post_data(post), comments[n])]
     ELSE <<post_data(post)>>

\* One turn of `for post in posts`: the post's row is written, then one row
\* for each of its comments
PostRows(post) ==
  LET comments == Get(post, "comments", <<>>)
  IN <<post_data(post)>>
     \o (IF comments # <<>>
         THEN [n \in DOMAIN comments |->
                 comment_row(post_data(post), comments[n])]
         ELSE <<>>)

RECURSIVE AllRows(_)
\* the rows of the posts, in order
AllRows(posts_) ==
  IF posts_ = <<>> THEN <<>>
  ELSE PostRows(Head(posts_)) \o AllRows(Tail(posts_))

\* the CSV text: empty without posts, else the header and the rows
export_posts_with_comments_to_csv(posts_) ==
  IF posts_ = <<>> THEN [header |-> <<>>, rows |-> <<>>]
  ELSE [header |-> columns, rows |-> AllRows(posts_)]

(***************************************************************************)
(* The helpers called on their own: one call of validate_input, of         *)
(* clean_subreddit_name, of a normalizer or of a URL builder, on arguments *)
(* drawn from the sets below.  op is the call, ret what it returned.       *)
(***************************************************************************)
\* longest community name given to clean_subreddit_name
MaxNameLen == 3

\* a dict entry that may be absent
Field(key, v) == IF v = Nothing THEN <<>> ELSE key :> v

\* configurations given to validate_input: each key absent, valid, invalid
\* or of another type
ConfigValues ==
  [subreddits : {Nothing, JList(<<>>), JList(<<Txt(<<"x">>)>>)},
   searchQuery : {Nothing, Txt(<<>>), Txt(Query)},
   sortBy : {Nothing, None, JStr("bogus")} \cup {JStr(so) : so \in VALID_SORT_OPTIONS},
   limit : {Nothing, None, JStr("25"), JBool(TRUE), JBool(FALSE)}
           \cup {JInt(l) : l \in {0, 1, DEFAULT_LIMIT, MAX_POSTS_PER_REQUEST,
                                  MAX_POSTS_PER_REQUEST + 1}}]

Configurations ==
  {JDict(Field("subreddits", c.subreddits) @@ Field("searchQuery", c.searchQuery)
         @@ Field("sortBy", c.sortBy) @@ Field("limit", c.limit)) :
     c \in ConfigValues}

NameChars == {"r", "/", "p", " "}
Names == UNION {[1..n -> NameChars] : n \in 0..MaxNameLen}

\* raw upstream records given to the normalizers
RawRecords ==
  {EmptyDict, JDict([id |-> JStr("p1")]), JDict([author |-> None]),
   JDict([created_utc |-> JInt(1)]), JDict([created_utc |-> None]),
   JDict([created_utc |-> JStr("soon")]), None, JList(<<>>)}

Queries ==
  {<<"q">>, <<"a", " ", "b">>, <<"a", "&", "b">>, <<"a", "=", "b">>,
   <<"a", "#", "b">>, <<>>}

Limits == {-1, 0, 1, DEFAULT_LIMIT, MAX_POSTS_PER_REQUEST, MAX_POSTS_PER_REQUEST + 1}

\* the comments attached to exported posts
ExportComment(c) ==
  normalize_comment_data(RawComment(c, JStr("hello")), JStr("p1")).ret

\* posts given to the export: without a comments field, with no comment,
\* with one and with two, and one with a null author
ExportPosts ==
  LET post == normalize_post_data(RawPost(1, JInt(2)), JStr("subreddit"),
                                  Txt(SubredditA)).ret
      anonymous == normalize_post_data(JDict([id |-> JStr("p2"), author |-> None]),
                                       JStr("search"), Txt(Query)).ret
  IN {post, anonymous, WithComments(post, <<>>),
      WithComments(post, <<ExportComment(1)>>),
      WithComments(post, <<ExportComment(1), ExportComment(2)>>)}

\* longest sequence of posts given to the export
MaxExported == 2

ExportInputs == UNION {[1..n -> ExportPosts] : n \in 0..MaxExported}

HelperCalls ==
  {[name |-> "validate_input", data |-> d] : d \in Configurations}
  \cup {[name |-> "clean_subreddit_name", subreddit |-> n] : n \in Names}
  \cup {[name |-> "normalize_post_data", raw |-> r, source_type |-> JStr(t),
         source_name |-> Txt(SubredditA)] :
          r \in RawRecords, t \in {"subreddit", "search"}}
  \cup {[name |-> "normalize_comment_data", raw |-> r, post_id |-> JStr("p1")] :
          r \in RawRecords}
  \cup {[name |-> "_build_subreddit_url", subreddit |-> n, sort |-> so,
         time_filter |-> t, limit |-> l] :
          n \in {SubredditA, SubredditB}, so \in {"new", "top", "hot"},
          t \in {"day", "week", "bogus"}, l \in Limits}
  \cup {[name |-> "_build_search_url", query |-> q, sort |-> "new", limit |-> l] :
          q \in Queries, l \in Limits}
  \cup {[name |-> "export_posts_with_comments_to_csv", posts |-> ps] :
          ps \in ExportInputs}

InitCalls ==
  /\ input_data = EmptyDict /\ pc = "call" /\ i = 0 /\ j = 0
  /\ posts = <<>> /\ all_posts = <<>> /\ sink = <<>> /\ summary = <<>>
  /\ exit_code = 0 /\ listed = <<>> /\ handled = <<>> /\ calls = <<>>
  /\ op \in HelperCalls
  /\ attempt = 0 /\ slept = <<>> /\ hist = <<>> /\ http = 0
  /\ resp = Nothing /\ ret = Nothing

\* the call named `name` is about to be made
Calling(name) == pc = "call" /\ op.name = name /\ ret = Nothing

CallValidateInput ==
  /\ Calling("validate_input")
  /\ ret' = validate_input(op.data)
  /\ UNCHANGED <<runVars, op, attempt, slept, hist, http, resp>>

CallCleanSubredditName ==
  /\ Calling("clean_subreddit_name")
  /\ ret' = Ret(clean_subreddit_name(op.subreddit))
  /\ UNCHANGED <<runVars, op, attempt, slept, hist, http, resp>>

CallNormalizePostData ==
  /\ Calling("normalize_post_data")
  /\ ret' = normalize_post_data(op.raw, op.source_type, op.source_name)
  /\ UNCHANGED <<runVars, op, attempt, slept, hist, http, resp>>

CallNormalizeCommentData ==
  /\ Calling("normalize_comment_data")
  /\ ret' = normalize_comment_data(op.raw, op.post_id)
  /\ UNCHANGED <<runVars, op, attempt, slept, hist, http, resp>>

CallBuildSubredditUrl ==
  /\ Calling("_build_subreddit_url")
  /\ ret' = Ret(build_subreddit_url(op.subreddit, op.sort, op.time_filter, op.limit))
  /\ UNCHANGED <<runVars, op, attempt, slept, hist, http, resp>>

CallBuildSearchUrl ==
  /\ Calling("_build_search_url")
  /\ ret' = Ret(build_search_url(op.query, op.sort, op.limit))
  /\ UNCHANGED <<runVars, op, attempt, slept, hist, http, resp>>

CallExportPostsWithCommentsToCsv ==
  /\ Calling("export_posts_with_comments_to_csv")
  /\ ret' = Ret(export_posts_with_comments_to_csv(op.posts))
  /\ UNCHANGED <<runVars, op, attempt, slept, hist, http, resp>>

NextCalls ==
  \/ CallValidateInput
  \/ CallCleanSubredditName
  \/ CallNormalizePostData
  \/ CallNormalizeCommentData
  \/ CallBuildSubredditUrl
  \/ CallBuildSearchUrl
  \/ CallExportPostsWithCommentsToCsv

SpecCalls == InitCalls /\ [][NextCalls]_vars

(***************************************************************************)
(* C12: validate_input.                                                    *)
(***************************************************************************)
\* the configuration the claim accepts: a non-empty community list or a
\* non-empty search query, sortBy (default new) one of the four orders and
\* limit (default 25) an integer of the configuration in 1..100
Acceptable(data) ==
  LET subs == DictGet(data, "subreddits", JList(<<>>))
      query == DictGet(data, "searchQuery", Txt(<<>>))
      sort == DictGet(data, "sortBy", JStr("new"))
      lim == DictGet(data, "limit", JInt(25))
  IN /\ (IsList(subs) /\ subs.list # <<>>) \/ ("chars" \in DOMAIN query /\ query.chars # <<>>)
     /\ IsStr(sort) /\ sort.str \in {"new", "hot", "top", "rising"}
     /\ IsInt(lim) /\ lim.int >= 1 /\ lim.int <= 100

\* C12 as stated: validate_input returns without an error exactly on the
\* acceptable configurations and raises on every other one
C12_AsStated ==
  (op.name = "validate_input" /\ ret # Nothing)
    => (~Raised(ret) <=> Acceptable(op.data))

C14_NoRequestWithoutCap ==
  (pc = "fetch" /\ op.name = "get_comments_for_post" /\ op.max_comments <= 0)
    => /\ http = 0 /\ hist = <<>> /\ resp = Nothing
       /\ ret \in {Nothing, Ret(<<>>)}

C14_Witness ==
  /\ pc = "fetch" /\ op.name = "get_comments_for_post" /\ op.max_comments <= 0
  /\ ret = Ret(<<>>) /\ hist = <<>>

(***************************************************************************)
(* C15, C20: the comments get_comments_for_post returns.                   *)
(***************************************************************************)
\* the comment operation has returned after a response with status 200
CommentsReturned ==
  /\ pc = "fetch" /\ op.name = "get_comments_for_post" /\ ret # Nothing
  /\ hist # <<>> /\ Last(hist).kind = "response" /\ Last(hist).status = 200
  /\ ~Raised(Last(hist).json)

\* the children of the comment listing in an upstream body (none when the
\* body has not the shape of a thread)
UpstreamChildren(body) ==
  IF /\ IsList(body) /\ Len(body.list) > 1 /\ IsDict(body.list[2])
     /\ "data" \in DOMAIN body.list[2].dict
     /\ IsDict(body.list[2].dict.data)
     /\ "children" \in DOMAIN body.list[2].dict.data.dict
     /\ IsList(body.list[2].dict.data.dict.children)
  THEN body.list[2].dict.data.dict.children.list
  ELSE <<>>

\* an upstream child tagged as a genuine comment (t1) whose body is
\* non-empty and is not the deleted sentinel
Genuine(child) ==
  /\ IsDict(child) /\ "kind" \in DOMAIN child.dict /\ child.dict.kind = JStr("t1")
  /\ "data" \in DOMAIN child.dict /\ IsDict(child.dict.data)
  /\ "body" \in DOMAIN child.dict.data.dict
  /\ child.dict.data.dict.body \notin {JStr(""), JStr("[deleted]"), None}

\* C15: every Comment returned by get_comments_for_post is the normalized
\* form of an upstream child that is a genuine comment with a non-empty,
\* non-deleted body
C15_OnlyGenuineComments ==
  CommentsReturned =>
    LET children == UpstreamChildren(Last(hist).json.ret)
    IN \A n \in DOMAIN ret.ret :
         \E c \in DOMAIN children :
           /\ Genuine(children[c])
           /\ Ret(ret.ret[n]) = normalize_comment_data(children[c].dict.data, op.post_id)

\* a comment was returned from a thread that also holds a child that is
\* not a genuine comment
C15_Witness ==
  /\ CommentsReturned /\ ret.ret # <<>>
  /\ LET children == UpstreamChildren(Last(hist).json.ret)
     IN \E c \in DOMAIN children : ~Genuine(children[c])

RECURSIVE GenuineComments(_, _)
\* the genuine comments among the children, normalized, in upstream order
GenuineComments(children, post_id) ==
  IF children = <<>> THEN <<>>
  ELSE (IF Genuine(Head(children))
        THEN <<normalize_comment_data(Head(children).dict.data, post_id).ret>>
        ELSE <<>>)
       \o GenuineComments(Tail(children), post_id)

\* C20 as stated, read on the threads whose children are all objects: the
\* sequence returned equals the upstream children filtered to the genuine
\* comments and then truncated to max_comments, in upstream order, and is
\* no longer than max_comments
C20_AsStated ==
  LET children == UpstreamChildren(Last(hist).json.ret)
  IN (CommentsReturned /\ \A c \in DOMAIN children : IsDict(children[c]))
       => /\ ret.ret = Take(GenuineComments(children, op.post_id), op.max_comments)
          /\ Len(ret.ret) <= op.max_comments

(***************************************************************************)
(* C16, C19: reading a URL back, as the server that receives it does.      *)
(***************************************************************************)
\* the elements of seq before the first sep (all of seq when it has none)
RECURSIVE Before(_, _)
Before(seq, sep) ==
  IF seq = <<>> \/ Head(seq) = sep THEN <<>>
  ELSE <<Head(seq)>> \o Before(Tail(seq), sep)

\* the elements of seq after the first sep (none when it has no sep)
RECURSIVE After(_, _)
After(seq, sep) ==
  IF seq = <<>> THEN <<>>
  ELSE IF Head(seq) = sep THEN Tail(seq)
  ELSE After(Tail(seq), sep)

\* seq cut at every sep
RECURSIVE Split(_, _)
Split(seq, sep) ==
  IF \E n \in DOMAIN seq : seq[n] = sep
  THEN <<Before(seq, sep)>> \o Split(After(seq, sep), sep)
  ELSE <<seq>>

\* the parameters of the query string of a URL: what follows the first "?",
\* cut at every "&", each piece cut at its first "="
QueryParams(url) ==
  LET pieces == Split(After(url, "?"), "&")
  IN [n \in DOMAIN pieces |->
        [key |-> Before(pieces[n], "="), value |-> After(pieces[n], "=")]]

\* the values the URL gives to the parameter `key`
ValuesOf(url, key) ==
  LET ps == QueryParams(url)
  IN {ps[n].value : n \in {m \in DOMAIN ps : ps[m].key = <<key>>}}

RECURSIVE ParseDigits(_)
ParseDigits(cs) ==
  IF cs = <<>> THEN 0
  ELSE 10 * ParseDigits(SubSeq(cs, 1, Len(cs) - 1))
       + (CHOOSE d \in 0..9 : Digit[d + 1] = cs[Len(cs)])

\* the integer written by cs
ParseInt(cs) == IF Head(cs) = "-" THEN 0 - ParseDigits(Tail(cs)) ELSE ParseDigits(cs)

\* lim clamped to [1, 100]
Clamped(lim) == IF lim < 1 THEN 1 ELSE IF lim > 100 THEN 100 ELSE lim

\* C16 as stated: the URL built by _build_subreddit_url has one limit
\* parameter, its value is in 1..100, and it is the limit given, raised to 1
\* when below 1 and lowered to 100 when above 100
C16_AsStated ==
  (pc = "call" /\ op.name = "_build_subreddit_url" /\ ret # Nothing)
    => \E v \in ValuesOf(ret.ret, "limit") :
         /\ ValuesOf(ret.ret, "limit") = {v}
         /\ ParseInt(v) \in 1..100
         /\ ParseInt(v) = Clamped(op.limit)

(***************************************************************************)
(* C17: clean_subreddit_name.                                              *)
(***************************************************************************)
RECURSIVE DropPrefixes(_)
\* s without its leading occurrences of the literal text "r/"
DropPrefixes(s) ==
  IF Len(s) >= 2 /\ s[1] = "r" /\ s[2] = "/"
  THEN DropPrefixes(SubSeq(s, 3, Len(s)))
  ELSE s

\* C17 as stated: clean_subreddit_name returns the name without its
\* surrounding whitespace and without its leading literal "r/" prefixes,
\* and removes nothing else (so a trimmed name that does not start with
\* "r/" comes back unchanged)
C17_AsStated ==
  (pc = "call" /\ op.name = "clean_subreddit_name" /\ ret # Nothing)
    => ret.ret = DropPrefixes(Strip(op.subreddit))

(***************************************************************************)
(* C18: the normalizers.                                                   *)
(***************************************************************************)
PostFields ==
  {"id", "title", "selftext", "author", "subreddit", "score", "upvote_ratio",
   "num_comments", "created_utc", "created_at", "url", "permalink", "is_self",
   "is_video", "thumbnail", "domain", "source_type", "source_name"}

CommentFields ==
  {"id", "author", "body", "score", "created_utc", "created_at", "permalink",
   "is_submitter", "parent_id", "post_id"}

\* C18 as stated, read on the raw records that are JSON objects: the
\* normalizers return, without failing, a record with every field of the
\* schema, whatever fields of the raw record are absent, null or of another
\* type; an empty raw record gives author "[deleted]", score 0, created_at
\* for epoch 0 and the source kind, source name and post id supplied
C18_AsStated ==
  (/\ pc = "call" /\ ret # Nothing
   /\ op.name \in {"normalize_post_data", "normalize_comment_data"}
   /\ IsDict(op.raw))
    => /\ ~Raised(ret)
       /\ DOMAIN ret.ret =
            IF op.name = "normalize_post_data" THEN PostFields ELSE CommentFields
       /\ op.raw = EmptyDict =>
            /\ ret.ret.author = JStr("[deleted]") /\ ret.ret.score = JInt(0)
            /\ ret.ret.created_at = JStr(IsoFormat(0))
            /\ IF op.name = "normalize_post_data"
               THEN /\ ret.ret.source_type = op.source_type
                    /\ ret.ret.source_name = op.source_name
               ELSE ret.ret.post_id = op.post_id

(***************************************************************************)
(* C19: the search URL.                                                    *)
(***************************************************************************)
\* characters that are reserved in a query string
Reserved == {"&", "=", "#", " "}

\* C19 as stated: the query is URL-encoded in the URL built by
\* _build_search_url: none of its reserved characters is in the URL as it
\* is, so the URL has exactly the parameters q, limit and sort
C19_AsStated ==
  (pc = "call" /\ op.name = "_build_search_url" /\ ret # Nothing)
    => LET ps == QueryParams(ret.ret)
       IN /\ Len(ps) = 3
          /\ ps[1].key = <<"q">> /\ ps[2].key = <<"limit">> /\ ps[3].key = <<"sort">>
          /\ \A n \in DOMAIN ps[1].value : ps[1].value[n] \notin Reserved

(***************************************************************************)
(* C21: the delay between communities.                                     *)
(***************************************************************************)
\* the listing calls and the delays of the run, in order
ListingsAndDelays ==
  SelectSeq(calls, LAMBDA c : c.name \in {"get_posts_from_subreddit", "sleep"})

\* C21 as stated: when the loop over the n communities is over, the run has
\* slept exactly n - 1 delays of DELAY_BETWEEN_SUBREDDITS_SECONDS, one
\* between the listing calls of every two consecutive communities and none
\* after the last
C21_AsStated ==
  (Valid /\ LoopIsOver /\ NumSubreddits >= 1)
    => /\ Len(ListingsAndDelays) = 2 * NumSubreddits - 1
       /\ \A n \in DOMAIN ListingsAndDelays :
            ListingsAndDelays[n] =
              IF n % 2 = 1 THEN GetPosts(subreddits.list[(n + 1) \div 2].chars)
              ELSE Delay

(***************************************************************************)
(* C22: the posts a listing operation returns.                             *)
(***************************************************************************)
\* a listing operation has returned after a response with status 200 whose
\* body is a JSON object
ListingReturned ==
  /\ pc = "fetch" /\ op.name \in {"get_posts_from_subreddit", "search_posts"}
  /\ ret # Nothing
  /\ hist # <<>> /\ Last(hist).kind = "response" /\ Last(hist).status = 200
  /\ ~Raised(Last(hist).json) /\ IsDict(Last(hist).json.ret)

\* the source kind and source name the operation gives to its posts
SourceType == IF op.name = "search_posts" THEN JStr("search") ELSE JStr("subreddit")
SourceName ==
  IF op.name = "search_posts" THEN Txt(op.target)
  ELSE Txt(clean_subreddit_name(op.target))

\* C22 as stated, read on the listings whose children are all objects: on a
\* 200 response the operation returns the empty sequence when the data key
\* or the children key is missing, and otherwise one normalized Post per
\* element of data.children, in upstream order
C22_AsStated ==
  ListingReturned =>
    LET body == Last(hist).json.ret.dict
    IN IF "data" \notin DOMAIN body THEN ret = Ret(<<>>)
       ELSE IF ~IsDict(body.data) THEN TRUE
       ELSE IF "children" \notin DOMAIN body.data.dict THEN ret = Ret(<<>>)
       ELSE LET children == body.data.dict.children
            IN (IsList(children) /\ \A c \in DOMAIN children.list : IsDict(children.list[c]))
                 => /\ ~Raised(ret) /\ Len(ret.ret) = Len(children.list)
                    /\ \A n \in DOMAIN children.list :
                         Ret(ret.ret[n]) =
                           normalize_post_data(
                             DictGet(children.list[n], "data", EmptyDict),
                             SourceType, SourceName)

(***************************************************************************)
(* C23: a 200 response whose body is not JSON.                             *)
(***************************************************************************)
IsBadJson(outcome) ==
  outcome.kind = "response" /\ outcome.status = 200 /\ Raised(outcome.json)

\* C23: a 200 response whose body fails to parse is the last outcome of the
\* call: the client returns (200, None) with no request and no sleep after
\* it, and the operation returns the empty sequence
C23_BadJsonIsNoUsableData ==
  \A n \in DOMAIN hist :
    IsBadJson(hist[n]) =>
      /\ n = Len(hist) /\ http = 0
      /\ resp = Pair(JInt(200), None)
      /\ Len(slept) = n - 1
      /\ ret # Nothing => ret = Ret(<<>>)

\* the second request of a listing operation answers 200 with an unparsable
\* body and the operation has returned
C23_Witness ==
  /\ op.name = "get_posts_from_subreddit" /\ Len(hist) = 2
  /\ IsBadJson(hist[2]) /\ ret = Ret(<<>>) /\ slept = <<wait_time(0)>>

(***************************************************************************)
(* C24: which posts get a comment fetch.                                   *)
(***************************************************************************)
RECURSIVE Flatten(_)
Flatten(seqs) == IF seqs = <<>> THEN <<>> ELSE Head(seqs) \o Flatten(Tail(seqs))

\* the post's comment count is greater than 0
HasComments(post) == IsInt(post.num_comments) /\ post.num_comments.int > 0

\* the comment fetches of the run, in the order it issued them
CommentFetches ==
  SelectSeq(calls, LAMBDA c : c.name = "get_comments_for_post")

\* one comment fetch for each fetched post with a comment count above 0
ExpectedFetches ==
  LET with == SelectSeq(Flatten(listed), HasComments)
  IN [n \in DOMAIN with |->
        GetComments(with[n].id, with[n].subreddit.chars,
                    max_comments_per_post.int)]

\* C24 as stated, read on the runs over communities only: with enrichment
\* enabled, once the communities are processed a comment fetch has been
\* issued for exactly the fetched posts whose comment count is above 0, in
\* post order, and every such post in the sink carries its comments
C24_AsStated ==
  (LoopIsOver /\ Truthy(include_comments) /\ ~Truthy(search_query))
    => /\ CommentFetches = ExpectedFetches
       /\ \A n \in DOMAIN sink :
            HasComments(sink[n]) => "comments" \in DOMAIN sink[n]

(***************************************************************************)
(* C25: a run without enrichment.                                          *)
(***************************************************************************)
\* C25: with includeComments false the run calls get_comments_for_post for
\* no post, no post in the sink has a comments field, and the posts of the
\* communities are in the sink as the listing operation returned them
C25_NoEnrichmentNoComments ==
  ~Truthy(include_comments)
    => /\ CommentFetches = <<>>
       /\ \A n \in DOMAIN sink :
            /\ DOMAIN sink[n] = PostFields
            /\ IsCommunityPost(sink[n])
                 => \E k \in DOMAIN listed : \E m \in DOMAIN listed[k] :
                      listed[k][m] = sink[n]

\* a run without enrichment has completed and forwarded a community post
\* with a comment count of 1 and a search post
C25_Witness ==
  /\ ~Truthy(include_comments) /\ pc = "done"
  /\ \E n \in DOMAIN sink :
       IsCommunityPost(sink[n]) /\ sink[n].num_comments = JInt(1)
  /\ \E n \in DOMAIN sink : ~IsCommunityPost(sink[n])

(***************************************************************************)
(* C26: exceptions that reach run_scraper.                                 *)
(***************************************************************************)
\* the step is one in which an exception leaves the search step, the
\* forwarding of a post or the writing of the summary
ExceptionEscapes ==
  \/ /\ pc = "search_enrich"
     /\ Raised(GreaterThanZero(posts[j].num_comments))
  \/ pc = "push" /\ Len(sink) < Len(all_posts) /\ sink' = sink
  \/ pc = "push" /\ Len(sink) = Len(all_posts) /\ summary' = summary

\* C26: when an exception leaves the search step, the forwarding of a post
\* or the writing of the summary, run_scraper catches it and the run ends
\* reported as failed with exit code 1
C26_FatalErrorsAreReported ==
  [][ExceptionEscapes => (pc' = "failed" /\ exit_code' = 1)]_vars

\* the forwarding of the second post raised after a valid configuration:
\* the run is reported as failed with one post in the sink
C26_Witness ==
  /\ Valid /\ pc = "failed" /\ exit_code = 1
  /\ Len(sink) = 1 /\ Len(all_posts) = 2 /\ summary = <<>>

(***************************************************************************)
(* C27: the rows of the post-with-comments export (SpecCalls).             *)
(***************************************************************************)
\* the export was called on a sequence of posts and has returned
Exported ==
  pc = "call" /\ op.name = "export_posts_with_comments_to_csv" /\ ret # Nothing

\* the comments of a post
CommentsOf(post) == IF "comments" \in DOMAIN post THEN post.comments ELSE <<>>

RECURSIVE SumOver(_, _)
\* the sum of Count(n) over n in 1..upto
SumOver(Count(_), upto) ==
  IF upto = 0 THEN 0 ELSE SumOver(Count, upto - 1) + Count(upto)

\* the columns that hold the post's fields
PostColumns == {columns[n] : n \in 1..18}

\* C27 as stated: a post without comments contributes one row with
\* row_type "post" and a post with k >= 1 comments exactly k rows, all with
\* row_type "comment"
C27_AsStated ==
  Exported =>
    LET RowsFor(n) == IF CommentsOf(op.posts[n]) = <<>> THEN 1
                      ELSE Len(CommentsOf(op.posts[n]))
    IN Len(ret.ret.rows) = SumOver(RowsFor, Len(op.posts))

\* C27: every post contributes one row with row_type "post" and empty
\* comment columns, followed by one row per comment, in order, with
\* row_type "comment" and the post's columns repeated: a post with k
\* comments contributes exactly k + 1 rows
C27_PostRowThenCommentRows ==
  Exported =>
    LET rows == ret.ret.rows
        RowsFor(n) == 1 + Len(CommentsOf(op.posts[n]))
    IN /\ Len(rows) = SumOver(RowsFor, Len(op.posts))
       /\ \A n \in DOMAIN op.posts :
            LET base == SumOver(RowsFor, n - 1) + 1
                comments == CommentsOf(op.posts[n])
            IN /\ rows[base].row_type = JStr("post")
               /\ rows[base].post_id = op.posts[n].id
               /\ rows[base].comment_id = JStr("")
               /\ \A c \in DOMAIN comments :
                    /\ rows[base + c].row_type = JStr("comment")
                    /\ rows[base + c].comment_id = comments[c].id
                    /\ \A f \in PostColumns : rows[base + c][f] = rows[base][f]

\* the export has returned the rows of two posts, the first with two
\* comments and the second with none: four rows
C27_Witness ==
  /\ Exported /\ Len(op.posts) = 2
  /\ Len(CommentsOf(op.posts[1])) = 2 /\ "comments" \notin DOMAIN op.posts[2]
  /\ Len(ret.ret.rows) = 4

(***************************************************************************)
(* C28: the time filter of the community listing URL (SpecCalls).          *)
(***************************************************************************)
\* the six recognized time filters
RecognizedTimeFilters == {"hour", "day", "week", "month", "year", "all"}

\* the parameters named t in the query string of the URL
TimeFilterTerms(url) ==
  SelectSeq(QueryParams(url), LAMBDA param : param.key = <<"t">>)

\* C28: the URL built by _build_subreddit_url has one term t=<timeFilter>
\* when the sort is "top" and the time filter is one of the six recognized
\* values, and no t term for any other sort or time filter
C28_TimeFilterOnlyForTop ==
  (pc = "call" /\ op.name = "_build_subreddit_url" /\ ret # Nothing)
    => TimeFilterTerms(ret.ret) =
         IF op.sort = "top" /\ op.time_filter \in RecognizedTimeFilters
         THEN <<[key |-> <<"t">>, value |-> <<op.time_filter>>]>>
         ELSE <<>>

\* the URL built for sort "top" and time filter "week" has the term t=week
C28_Witness ==
  /\ pc = "call" /\ op.name = "_build_subreddit_url" /\ ret # Nothing
  /\ op.sort = "top" /\ op.time_filter = "week"
  /\ ValuesOf(ret.ret, "t") = {<<"week">>}

(***************************************************************************)
(* C29: the limit of a comment-thread request (SpecFetch).                 *)
(***************************************************************************)
\* the number of requests the operation has sent
RequestsSent == Len(hist) + http

\* the URL get_comments_for_post gives to the retry client, which requests
\* it at every attempt
CommentsRequestUrl == full_url(op.target, op.post_id, op.max_comments)

\* C29: get_comments_for_post sends no request for a cap of 0 or less, and
\* every request it sends has one limit parameter, in 1..100: the cap, or
\* 100 for a cap above 100
C29_CommentLimitInRange ==
  (pc = "fetch" /\ op.name = "get_comments_for_post")
    => /\ op.max_comments <= 0 => RequestsSent = 0
       /\ RequestsSent > 0 =>
            \E v \in ValuesOf(CommentsRequestUrl, "limit") :
              /\ ValuesOf(CommentsRequestUrl, "limit") = {v}
              /\ ParseInt(v) \in 1..100
              /\ ParseInt(v) = Min(op.max_comments, 100)

\* a comment fetch with a cap of 101 has sent its second request, with
\* limit=100
C29_Witness ==
  /\ pc = "fetch" /\ op.name = "get_comments_for_post"
  /\ op.max_comments = 101 /\ Len(hist) = 1 /\ http = 1
  /\ ValuesOf(CommentsRequestUrl, "limit") = {<<"1", "0", "0">>}

(***************************************************************************)
(* C30: the requests and the sleeps of one call of the retry client.       *)
(***************************************************************************)
\* C30: a call of _make_request_with_retry sends at most 3 requests and
\* sleeps at most 2 times whatever the outcomes; it has returned once the
\* third outcome has arrived; and it sleeps only between two attempts, so
\* never after the last one
C30_BoundedRequestsAndSleeps ==
  pc = "fetch" =>
    /\ RequestsSent <= 3
    /\ Len(slept) <= 2
    /\ Len(hist) = 3 => resp # Nothing
    /\ resp # Nothing => (http = 0 /\ Len(slept) = Len(hist) - 1)
    /\ resp = Nothing => Len(slept) = Len(hist)

\* a call has ended after a 403, a transport failure and a 403 again:
\* three requests and two sleeps
C30_Witness ==
  /\ pc = "fetch" /\ resp # Nothing /\ Len(hist) = 3
  /\ Is403(hist[1]) /\ IsTransportError(hist[2]) /\ Is403(hist[3])
  /\ slept = <<wait_time(0), wait_time(1)>>

(***************************************************************************)
(* C31: the fetch phase and the forward phase of run_scraper.              *)
(***************************************************************************)
\* the names of the operations the run has called
Called == {calls[n].name : n \in DOMAIN calls}

\* C31: a step in which the run calls a fetch operation (or sleeps between
\* two of them) starts and ends with an empty sink, and a step that forwards
\* a post is a step of the push loop, which calls no operation and collects
\* no post: no post is forwarded before every fetch of the run is over
C31_FetchThenForward ==
  [][/\ calls' # calls => (sink = <<>> /\ sink' = <<>>)
     /\ sink' # sink => (pc = "push" /\ calls' = calls /\ all_posts' = all_posts)
     /\ pc \in {"sub_listing", "sub_enrich", "sub_extend", "sub_sleep",
                "search_listing", "search_enrich", "search_extend"}
          => sink' = <<>>]_vars

\* a run with a community, comment enrichment and a search is forwarding
\* its posts: the listing, a comment fetch and the search are all over
C31_Witness ==
  /\ pc = "push" /\ Len(sink) >= 1 /\ Len(sink) < Len(all_posts)
  /\ Called = {"get_posts_from_subreddit", "get_comments_for_post", "search_posts"}

====
